---------------------------- MODULE Spec2Model ----------------------------
(***************************************************************************)
(* figma-export-svg: the document-tree scan, the render-request batching,  *)
(* the render requester, the download/optimize orchestration and the       *)
(* configuration validator, as state machines.                             *)
(*                                                                         *)
(* Pure functions (collectSVGComponents, getFigmaFileRequestBatches,       *)
(* validateAndCleanConfig) are operators; a direct call of one of them is  *)
(* the pair of variables arg (its input) and ret (its result).             *)
(***************************************************************************)
EXTENDS Integers, Sequences, FiniteSets, TLC

VARIABLES
    fn,     \* the function called: "cli", "run", or the function a direct call is of
    arg,    \* the input of a direct call; of a run: the output directory as it finds it
    ret,    \* the call's outcome: [done |-> FALSE] until it has returned or thrown
    entry,            \* "cli", "run", or "direct" for a direct call of one function
    pc,               \* the await the caller is suspended at
    config,           \* the Config
    exitCode,         \* process.exitCode: "unset", "0" or "1"
    failedAt,         \* the phase whose failure ended the run, "" for none
    svgComponents,    \* the ExportCandidate map: identifier -> export name
    batches,          \* the identifier batches of the render requests
    batchState,       \* per batch: the getImages call in flight, or its response
    renderAll,        \* the Promise.all over the batch calls
    svgDownloadPaths, \* the RenderResult map: export name -> URL
    dirExists,        \* the output directory exists
    files,            \* the files of the output directory: path -> content
    items,            \* per download: its destination, URL and position
    dlAll,            \* the Promise.all over the downloads
    progress,         \* the paths the progress callback was invoked with, in order
    svgWrites,        \* the caller's written-file list
    svgoLoaded,       \* the optimizer configuration optimizeSVGs resolved
    optItems,         \* per optimizeSVG task: its path and position
    optAll,           \* the Promise.all over the optimizeSVG tasks
    io                \* how many I/O operations of each kind were issued

pipeVars ==
    <<entry, pc, config, exitCode, failedAt, svgComponents, batches, batchState, renderAll,
      svgDownloadPaths, dirExists, files, items, dlAll, progress, svgWrites, svgoLoaded,
      optItems, optAll, io>>

vars == <<fn, arg, ret, pipeVars>>

NotCalled == [done |-> FALSE]

(***************************************************************************)
(* Bounds of the model.                                                    *)
(***************************************************************************)
\* nodes of a document forest handed to collectSVGComponents
MaxNodes == 3
\* identifiers handed to getFigmaFileRequestBatches
MaxIds == 4
\* largest batchSize argument tried for getFigmaFileRequestBatches
MaxBatchSize == 4

(***************************************************************************)
(* A JavaScript Map: a sequence of [key, val] entries in insertion order.  *)
(* set() of a present key replaces the value in place, of a new key        *)
(* appends the entry.                                                      *)
(***************************************************************************)
EmptyMap == <<>>

MapKeys(m) == [i \in 1..Len(m) |-> m[i].key]

MapHas(m, k) == \E i \in 1..Len(m) : m[i].key = k

MapGet(m, k) == m[CHOOSE i \in 1..Len(m) : m[i].key = k].val

MapSet(m, k, v) ==
    IF MapHas(m, k)
    THEN [i \in 1..Len(m) |-> IF m[i].key = k THEN [key |-> k, val |-> v] ELSE m[i]]
    ELSE Append(m, [key |-> k, val |-> v])

RECURSIVE MapSetAll(_, _)
MapSetAll(m, other) ==
    IF other = <<>> THEN m
    ELSE MapSetAll(MapSet(m, Head(other).key, Head(other).val), Tail(other))

(***************************************************************************)
(* Tree Scanner: collectSVGComponents.                                     *)
(*                                                                         *)
(* A forest is a table T of nodes in document order; node k has the        *)
(* identifier k and the fields type, visible ("true", "false" or           *)
(* "undefined": the field is optional), exportSettings (the sequence of    *)
(* the formats of its export settings), name, and parent (the index of     *)
(* its parent in T, 0 for a node of the list the scan is called with).     *)
(***************************************************************************)
\* the type, visibility and export settings a node of the model can have
NodeKind(type, visible, exportSettings) ==
    [type |-> type, visible |-> visible, exportSettings |-> exportSettings]

NodeKinds ==
    {NodeKind("COMPONENT", "undefined", <<"PNG", "SVG">>),
     NodeKind("COMPONENT", "true", <<"SVG">>),
     NodeKind("COMPONENT", "false", <<"SVG">>),
     NodeKind("COMPONENT", "undefined", <<"PNG">>),
     NodeKind("COMPONENT", "true", <<>>),
     NodeKind("FRAME", "undefined", <<"SVG">>),
     NodeKind("FRAME", "false", <<>>)}

\* display names by identifier: two nodes share the name "a", one is unnamed
NameOf(k) == <<"a", "b", "a", "", "c", "d", "e">>[k]

ParentVectors(n) == {p \in [1..n -> 0..n] : \A k \in 1..n : p[k] < k}

\* the forest of n nodes with the given kinds and parents
Forest(n, kind, p) ==
    [k \in 1..n |-> [type |-> kind[k].type, visible |-> kind[k].visible,
                     exportSettings |-> kind[k].exportSettings,
                     name |-> NameOf(k), parent |-> p[k]]]

\* node.children of node k (k = 0: the list the scan is called with)
Children(T, k) == SelectSeq([i \in 1..Len(T) |-> i], LAMBDA j : T[j].parent = k)

\* node.exportSettings?.find((setting) => setting.format === 'SVG')
HasSVGExport(n) == \E i \in 1..Len(n.exportSettings) : n.exportSettings[i] = "SVG"

\* a match condition that takes a missing visible field for invisible
IsMatchExplicitlyVisible(n) == n.type = "COMPONENT" /\ n.visible = "true" /\ HasSVGExport(n)

\* the if-condition of the scan: the node is recorded
IsMatch(n) == n.type = "COMPONENT" /\ n.visible # "false" /\ HasSVGExport(n)

ShouldDescendMatched(T, k) == Len(Children(T, k)) > 0

\* the else-if of the scan: the node's children are scanned
ShouldDescend(T, k) == ~IsMatch(T[k]) /\ Len(Children(T, k)) > 0

RECURSIVE collectSVGComponents(_, _)
collectSVGComponents(T, nodes) ==
    LET RECURSIVE loop(_, _)
        loop(i, discoveredNodes) ==
            IF i > Len(nodes) THEN discoveredNodes
            ELSE LET k == nodes[i]
                     found == IF IsMatch(T[k])
                              THEN MapSet(discoveredNodes, k, T[k].name)
                              ELSE discoveredNodes
                 IN  IF ShouldDescend(T, k)
                     THEN loop(i + 1, MapSetAll(found, collectSVGComponents(T, Children(T, k))))
                     ELSE loop(i + 1, found)
    IN  loop(1, EmptyMap)


(***************************************************************************)
(* Batch Planner: getFigmaFileRequestBatches.                              *)
(***************************************************************************)
\* imageIds.slice(from, to): the elements at the 0-based positions from..to-1
Slice(s, from, to) ==
    LET hi == IF to > Len(s) THEN Len(s) ELSE to
    IN  [j \in 1..(IF hi > from THEN hi - from ELSE 0) |-> s[from + j]]

SliceDroppingLast(s, from, to) == Slice(s, from, to - 1)

BatchSlice(s, from, to) == Slice(s, from, to)

RECURSIVE BatchLoop(_, _, _, _)
BatchLoop(imageIds, batchSize, i, acc) ==
    IF i < Len(imageIds)
    THEN BatchLoop(imageIds, batchSize, i + batchSize,
                   Append(acc, BatchSlice(imageIds, i, i + batchSize)))
    ELSE acc

getFigmaFileRequestBatches(candidates, batchSize) ==
    BatchLoop(MapKeys(candidates), batchSize, 0, <<>>)


(***************************************************************************)
(* Config Validator: cleanNodeIds and validateAndCleanConfig.              *)
(*                                                                         *)
(* A node identifier typed by the user is a sequence of characters; the    *)
(* other string fields are TLA+ strings, Undefined for a missing field.    *)
(* scale is undefined, NaN (parseFloat of a non-number) or a number, held  *)
(* in thousandths: 0.01 is 10 and 4 is 4000.                               *)
(***************************************************************************)
Undefined == "<undefined>"

\* !s of a string field
FalsyString(s) == s = "" \/ s = Undefined

ScaleMin == 10
ScaleMax == 4000

IsWhitespace(c) == c = " "

RECURSIVE TrimStart(_)
TrimStart(s) == IF s # <<>> /\ IsWhitespace(Head(s)) THEN TrimStart(Tail(s)) ELSE s

RECURSIVE TrimEnd(_)
TrimEnd(s) ==
    IF s # <<>> /\ IsWhitespace(s[Len(s)]) THEN TrimEnd(SubSeq(s, 1, Len(s) - 1)) ELSE s

TrimStartOnly(s) == TrimStart(s)

\* curr.trim()
Trim(s) == TrimEnd(TrimStart(s))

\* .replace(/-/g, ':')
ReplaceDashes(s) == [i \in 1..Len(s) |-> IF s[i] = "-" THEN ":" ELSE s[i]]

RECURSIVE cleanNodeIds(_)
cleanNodeIds(nodeIds) ==
    IF nodeIds = <<>> THEN <<>>
    ELSE LET rest == cleanNodeIds(SubSeq(nodeIds, 1, Len(nodeIds) - 1))
             cleaned == ReplaceDashes(Trim(nodeIds[Len(nodeIds)]))
         IN  IF cleaned # <<>> THEN Append(rest, cleaned) ELSE rest

\* config.scale as a condition: false for undefined, NaN and 0
TruthyScale(scale) == scale.kind = "num" /\ scale.milli # 0

\* config.scale && (config.scale < 0.01 || config.scale > 4)
ScaleRejected(scale) == TruthyScale(scale) /\ (scale.milli < ScaleMin \/ scale.milli > ScaleMax)

\* a validation without the check of the access token
AccessTokenNeverRejected(s) == FALSE

\* !config.accessToken
AccessTokenRejected(s) == FalsyString(s)

\* a thrown Error: its message as the sequence of its parts, the outermost wrapper first
Thrown(msg) == [done |-> TRUE, ok |-> FALSE, error |-> msg]

Returned(v) == [done |-> TRUE, ok |-> TRUE, val |-> v]

validateAndCleanConfig(cfg) ==
    LET cleaned == IF cfg.nodeIds.defined
                   THEN [cfg EXCEPT !.nodeIds.list = cleanNodeIds(@)]
                   ELSE cfg
    IN  IF FalsyString(cleaned.outputDirectory)
            THEN Thrown(<<"Missing required parameter: output path">>)
        ELSE IF AccessTokenRejected(cleaned.accessToken)
            THEN Thrown(<<"Missing required parameter: Figma personal access token">>)
        ELSE IF FalsyString(cleaned.fileId)
            THEN Thrown(<<"Missing required parameter: Figma file ID">>)
        ELSE IF ScaleRejected(cleaned.scale)
            THEN Thrown(<<"Invalid Figma image scale value, must be between 0.01 and 4">>)
        ELSE Returned(cleaned)

(***************************************************************************)
(* The pipeline: cli (src/index.ts) and run (the programmatic entry), and  *)
(* the asynchronous functions they await.  One logical thread: a step of   *)
(* the model is one completion of an I/O operation together with all the   *)
(* synchronous code that runs on it, up to the next awaits.                *)
(*                                                                         *)
(* The handlers are functions on the record of the whole state; Becomes    *)
(* assigns the record they return to the variables.                        *)
(***************************************************************************)
\* default batchSize of getFigmaFileRequestBatches, scaled down from 300
BatchSize == 2

State ==
    [ret |-> ret, entry |-> entry, pc |-> pc, config |-> config, exitCode |-> exitCode,
     failedAt |-> failedAt, svgComponents |-> svgComponents, batches |-> batches,
     batchState |-> batchState, renderAll |-> renderAll,
     svgDownloadPaths |-> svgDownloadPaths, dirExists |-> dirExists, files |-> files,
     items |-> items, dlAll |-> dlAll, progress |-> progress, svgWrites |-> svgWrites,
     svgoLoaded |-> svgoLoaded, optItems |-> optItems, optAll |-> optAll, io |-> io]

Becomes(s) ==
    /\ ret' = s.ret
    /\ entry' = s.entry
    /\ pc' = s.pc
    /\ config' = s.config
    /\ exitCode' = s.exitCode
    /\ failedAt' = s.failedAt
    /\ svgComponents' = s.svgComponents
    /\ batches' = s.batches
    /\ batchState' = s.batchState
    /\ renderAll' = s.renderAll
    /\ svgDownloadPaths' = s.svgDownloadPaths
    /\ dirExists' = s.dirExists
    /\ files' = s.files
    /\ items' = s.items
    /\ dlAll' = s.dlAll
    /\ progress' = s.progress
    /\ svgWrites' = s.svgWrites
    /\ svgoLoaded' = s.svgoLoaded
    /\ optItems' = s.optItems
    /\ optAll' = s.optAll
    /\ io' = s.io
    /\ UNCHANGED <<fn, arg>>

NoIO ==
    [getFile |-> 0, getImages |-> 0, rm |-> 0, mkdir |-> 0, fetch |-> 0, writeFile |-> 0,
     loadConfig |-> 0, readFile |-> 0]

\* one more I/O operation of the kind is issued
Issue(s, kind, n) == [s EXCEPT !.io[kind] = @ + n]

(***************************************************************************)
(* How a failure of a phase reaches the caller.                            *)
(***************************************************************************)
Finish(s, code, phase, outcome) ==
    [s EXCEPT !.pc = "done", !.exitCode = code, !.failedAt = phase, !.ret = outcome]

\* run's inner try blocks: the wrapper each adds
RunWrapper(phase) ==
    IF phase \in {"prepare", "download"} THEN <<"Failed to download and save SVGs">>
    ELSE IF phase = "optimize" THEN <<"Failed to optimize SVGs">>
    ELSE <<>>

\* a cli that reports the error and returns without setting process.exitCode
FailWithoutExitCode(s, phase, error) ==
    IF s.entry = "cli" THEN Finish(s, s.exitCode, phase, Returned("void"))
    ELSE Finish(s, s.exitCode, phase, Thrown(error))

\* cli reports the error, sets process.exitCode = 1 and returns; run rethrows it
\* wrapped; a direct call throws it as it is
Fail(s, phase, error) ==
    IF s.entry = "cli" THEN Finish(s, "1", phase, Returned("void"))
    ELSE IF s.entry = "run"
        THEN Finish(s, s.exitCode, phase,
                    Thrown(<<"[figma-svg-export] error">> \o RunWrapper(phase) \o error))
    ELSE Finish(s, s.exitCode, phase, Thrown(error))

(***************************************************************************)
(* The output directory.                                                   *)
(***************************************************************************)
\* the content of a path: absent, a file of an earlier run, or what a download
\* or the optimizer wrote.  url is the URL the bytes were fetched from; svgo is
\* "raw" or the optimizer configuration the content went through.
Absent == [kind |-> "absent", url |-> 0, svgo |-> "raw"]

Stale == [kind |-> "stale", url |-> 0, svgo |-> "raw"]

\* the body of a response: an SVG, or no bytes at all
Body(url, empty) == [kind |-> IF empty THEN "empty" ELSE "svg", url |-> url, svgo |-> "raw"]

\* a write that failed after the file was opened and truncated
Truncated == [kind |-> "empty", url |-> 0, svgo |-> "raw"]

\* export names of the model and the file stems the casing functions give them
ExportNames == {"a", "A", "b", ""}

Strategies == {"kebab", "pascal"}

\* cases[namingStrategy](svgName), of the change-case library
caseStrategy(strategy, svgName) ==
    IF svgName = "" THEN ""
    ELSE IF strategy = "kebab" THEN (IF svgName = "b" THEN "b" ELSE "a")
    ELSE (IF svgName = "b" THEN "B" ELSE "A")

OldFile == "old-file"

Paths == {caseStrategy(st, n) : st \in Strategies, n \in ExportNames} \cup {OldFile}

NoFiles == [p \in Paths |-> Absent]

(***************************************************************************)
(* getFigmaFile.                                                           *)
(***************************************************************************)
\* the identifier of node k as the service spells it: "k:1"
IdString(k) == << <<"1", "2", "3", "4", "5", "6", "7", "8", "9">>[k], ":", "1" >>

Includes(list, x) == \E i \in 1..Len(list) : list[i] = x

RECURSIVE FlatMapChildren(_, _, _)
FlatMapChildren(T, tops, nodeIds) ==
    IF tops = <<>> THEN <<>>
    ELSE (IF Len(nodeIds) = 0 \/ Includes(nodeIds, IdString(Head(tops)))
          THEN Children(T, Head(tops)) ELSE <<>>)
            \o FlatMapChildren(T, Tail(tops), nodeIds)

\* a scan of the children of every top-level node, filter or not
ScannedNodesUnfiltered(T, nodeIds) == FlatMapChildren(T, Children(T, 0), <<>>)

\* result.document.children.flatMap(...): the nodes handed to the scan
ScannedNodes(T, nodeIds) == FlatMapChildren(T, Children(T, 0), nodeIds)

\* the nodeIds argument: config.nodeIds, [] by default
NodeIdsArgument(cfg) == IF cfg.nodeIds.defined THEN cfg.nodeIds.list ELSE <<>>

(***************************************************************************)
(* getFigmaFileBatchImages and getFigmaFileSVGDownloadPaths.               *)
(*                                                                         *)
(* A response is thrown (the call failed), err (the service reports an     *)
(* error field) or images: a sequence of [key, val] entries in the order   *)
(* Object.entries gives them; val is the URL, 0 for null or empty.  The    *)
(* URL of node k is k.                                                     *)
(***************************************************************************)
InFlight == [state |-> "inflight", images |-> <<>>]

BatchFailed(r) == r.state \in {"thrown", "err"}

\* Promise.all over tasks in the given states
PromiseAllIgnoringFailures(states) ==
    IF \A i \in 1..Len(states) : states[i] # "pending" THEN "resolved" ELSE "pending"

PromiseAll(states) ==
    IF \E i \in 1..Len(states) : states[i] = "rejected" THEN "rejected"
    ELSE IF \A i \in 1..Len(states) : states[i] = "resolved" THEN "resolved"
    ELSE "pending"

BatchPromise(r) ==
    IF r.state = "inflight" THEN "pending"
    ELSE IF BatchFailed(r) THEN "rejected" ELSE "resolved"

\* !svgName: the identifier is not a key of svgComponents, or its name is empty
NoSvgName(candidates, nodeId) == ~MapHas(candidates, nodeId) \/ MapGet(candidates, nodeId) = ""

\* the loops over results and their entries
RECURSIVE MergeEntries(_, _, _)
MergeEntries(candidates, entries, paths) ==
    IF entries = <<>> THEN Returned(paths)
    ELSE LET nodeId == Head(entries).key
             url == Head(entries).val
         IN  IF NoSvgName(candidates, nodeId) THEN Thrown(<<"No SVG name found for node">>)
             ELSE IF url = 0 THEN Thrown(<<"No URL found for node">>)
             ELSE MergeEntries(candidates, Tail(entries),
                               MapSet(paths, MapGet(candidates, nodeId), url))

RECURSIVE ConcatImages(_)
ConcatImages(results) ==
    IF results = <<>> THEN <<>>
    ELSE Head(results).images \o ConcatImages(Tail(results))

MergeResults(candidates, results) == MergeEntries(candidates, ConcatImages(results), EmptyMap)

(***************************************************************************)
(* optimizeSVGs and optimizeSVG.                                           *)
(***************************************************************************)
OptTaskPromise(t) ==
    IF t.state \in {"reading", "writing"} THEN "pending" ELSE t.state

\* svgoConfigPath is supplied
HasSvgoPath(cfg) == cfg.svgo \in {"path", "both"}

\* svgoConfig (inline) is supplied
HasSvgoInline(cfg) == cfg.svgo \in {"inline", "both"}

\* what loadSvgoConfig(svgoConfigPath, cwd) can do: with a path it loads that file
\* or throws; without one it looks for a svgo.config file upwards from cwd and
\* gives it, or null when there is none
LoadOutcomes(cfg) ==
    IF HasSvgoPath(cfg) THEN {"file", "throw"} ELSE {"discovered", "null", "throw"}

\* optimize(svgString, svgoConfig).data
Optimized(content, svgoConfig) == [content EXCEPT !.svgo = svgoConfig]

AfterOptimize(s, r) ==
    IF r.ok THEN Finish(s, s.exitCode, "", Returned("void"))
    ELSE Fail(s, "optimize", <<"Failed to optimize SVGs with SVGO">> \o r.error)

SettleOptimize(s) ==
    LET all == PromiseAll([i \in 1..Len(s.optItems) |-> OptTaskPromise(s.optItems[i])])
    IN  IF s.optAll # "pending" \/ all = "pending" THEN s
        ELSE IF all = "rejected"
            THEN AfterOptimize([s EXCEPT !.optAll = "rejected"],
                               Thrown(s.optItems[CHOOSE i \in 1..Len(s.optItems) :
                                                    s.optItems[i].state = "rejected"].error))
        ELSE AfterOptimize([s EXCEPT !.optAll = "resolved"], Returned("void"))

\* the call of optimizeSVGs up to its first await
CallOptimize(s, paths) ==
    IF ~HasSvgoInline(s.config) /\ ~HasSvgoPath(s.config)
    THEN Fail(s, "optimize", <<"No SVGO configuration found">>)
    ELSE Issue([s EXCEPT !.pc = "loadSvgo", !.svgWrites = paths], "loadConfig", 1)

\* an optimizeSVGs that goes on to the files whatever loadSvgoConfig gave
OnLoadIgnoringFailure(s, outcome) ==
    SettleOptimize(
        Issue([s EXCEPT !.svgoLoaded = outcome,
                        !.pc = "optimize",
                        !.optAll = "pending",
                        !.optItems = [i \in 1..Len(s.svgWrites) |->
                                        [path |-> s.svgWrites[i], state |-> "reading",
                                         data |-> Absent, error |-> <<>>]]],
              "readFile", Len(s.svgWrites)))

\* loadSvgoConfig has returned outcome: the optimizeSVG tasks are launched
OnLoad(s, outcome) ==
    IF outcome \in {"null", "throw"}
    THEN Fail(s, "optimize",
              <<"Failed to optimize SVGs with SVGO", "Failed to load SVGO configuration file">>)
    ELSE SettleOptimize(
            Issue([s EXCEPT !.svgoLoaded = outcome,
                            !.pc = "optimize",
                            !.optAll = "pending",
                            !.optItems = [i \in 1..Len(s.svgWrites) |->
                                            [path |-> s.svgWrites[i], state |-> "reading",
                                             data |-> Absent, error |-> <<>>]]],
                  "readFile", Len(s.svgWrites)))

RejectOpt(s, i, error) ==
    SettleOptimize([s EXCEPT !.optItems[i].state = "rejected", !.optItems[i].error = error])

\* readFile of task i has completed: "ok", "fail", or "ok" followed by a throw of
\* the optimizer ("invalid")
OnOptRead(s, i, outcome) ==
    LET svgPath == s.optItems[i].path
        readable == svgPath \in Paths /\ s.files[svgPath].kind # "absent"
    IN  IF outcome = "fail" \/ ~readable
            THEN RejectOpt(s, i, <<"Failed to read SVG from">>)
        ELSE IF s.files[svgPath].kind = "empty"
            THEN RejectOpt(s, i, <<"Encountered empty SVG at">>)
        ELSE IF outcome = "invalid"
            THEN RejectOpt(s, i, <<"Failed to optimize SVG at">>)
        ELSE Issue([s EXCEPT !.optItems[i].state = "writing",
                             !.optItems[i].data = Optimized(s.files[svgPath], s.svgoLoaded)],
                   "writeFile", 1)

\* writeFile of task i has completed: "ok", "fail" (nothing written) or
\* "truncated" (it failed after truncating the file)
OnOptWrite(s, i, outcome) ==
    LET svgPath == s.optItems[i].path
    IN  IF outcome = "ok"
        THEN SettleOptimize([s EXCEPT !.files[svgPath] = s.optItems[i].data,
                                      !.optItems[i].state = "resolved"])
        ELSE RejectOpt([s EXCEPT !.files[svgPath] =
                                    IF outcome = "truncated" THEN Truncated ELSE @],
                       i, <<"Failed to optimize SVG at">>)

(***************************************************************************)
(* downloadSVG and downloadAndSaveSVGs.                                    *)
(*                                                                         *)
(* The progress callback onDownload is none (not supplied), "report" (it   *)
(* returns the path it was given, as cli's does), "other" (it returns      *)
(* something else) or "throws".                                            *)
(***************************************************************************)
Callbacks == {"none", "report", "other", "throws"}

OtherValue == "<other>"

DownloadPromise(t) ==
    IF t.state \in {"fetching", "writing"} THEN "pending" ELSE t.state

\* cli optimizes only with an optimizer configuration; run always calls optimizeSVGs
SkipsOptimize(s) == s.entry = "cli" /\ ~HasSvgoInline(s.config) /\ ~HasSvgoPath(s.config)

\* a caller that goes on to optimizeSVGs although the downloads failed
AfterDownloadAlwaysOptimizing(s, r) ==
    IF s.entry = "direct" THEN (IF r.ok THEN Finish(s, s.exitCode, "", r)
                                ELSE Fail(s, "download", r.error))
    ELSE CallOptimize(s, IF r.ok THEN r.val ELSE <<>>)

AfterDownload(s, r) ==
    IF ~r.ok THEN Fail(s, "download", r.error)
    ELSE IF s.entry = "direct" THEN Finish(s, s.exitCode, "", r)
    ELSE IF SkipsOptimize(s)
        THEN Finish([s EXCEPT !.svgWrites = r.val], s.exitCode, "", Returned("void"))
    ELSE CallOptimize(s, r.val)

AllValuesReversed(tasks) == [i \in 1..Len(tasks) |-> tasks[Len(tasks) + 1 - i].value]

\* what Promise.all resolves with: the tasks' values in the order of the tasks
AllValues(tasks) == [i \in 1..Len(tasks) |-> tasks[i].value]

\* the promise downloadAndSaveSVGs returns is Promise.all(svgWrites) itself: it
\* rejects with the first rejection as it is (the catch around the return
\* statement sees no rejection)
SettleDownload(s) ==
    LET all == PromiseAll([i \in 1..Len(s.items) |-> DownloadPromise(s.items[i])])
    IN  IF s.dlAll # "pending" \/ all = "pending" THEN s
        ELSE IF all = "rejected"
            THEN AfterDownload([s EXCEPT !.dlAll = "rejected"],
                               Thrown(s.items[CHOOSE i \in 1..Len(s.items) :
                                                 s.items[i].state = "rejected"].error))
        ELSE AfterDownload([s EXCEPT !.dlAll = "resolved"],
                           Returned(AllValues(s.items)))

\* a downloadAndSaveSVGs whose downloads all write the path of the first entry
CallDownloadToOnePath(s, paths, namingStrategy, onDownload) ==
    SettleDownload(
        Issue([s EXCEPT !.pc = "download",
                        !.dlAll = "pending",
                        !.items = [i \in 1..Len(paths) |->
                                    [name |-> paths[i].key, url |-> paths[i].val,
                                     filePath |-> caseStrategy(namingStrategy, paths[1].key),
                                     onDownload |-> onDownload, state |-> "fetching",
                                     body |-> Absent, value |-> "", error |-> <<>>]]],
              "fetch", Len(paths)))

\* the call of downloadAndSaveSVGs: every downloadSVG is started
CallDownload(s, paths, namingStrategy, onDownload) ==
    SettleDownload(
        Issue([s EXCEPT !.pc = "download",
                        !.dlAll = "pending",
                        !.items = [i \in 1..Len(paths) |->
                                    [name |-> paths[i].key, url |-> paths[i].val,
                                     filePath |-> caseStrategy(namingStrategy, paths[i].key),
                                     onDownload |-> onDownload, state |-> "fetching",
                                     body |-> Absent, value |-> "", error |-> <<>>]]],
              "fetch", Len(paths)))

\* a rollback: the files of the items that have resolved are deleted
FilesRolledBack(s) ==
    [p \in Paths |->
        IF \E j \in 1..Len(s.items) : s.items[j].state = "resolved" /\ s.items[j].filePath = p
        THEN Absent ELSE s.files[p]]

\* the files after an item has failed: nothing is cleaned up
FilesAfterFailure(s) == s.files

\* a failure that cancels the downloads still in flight
RejectDownloadCancelling(s, i, error) ==
    SettleDownload(
        [s EXCEPT !.items = [j \in 1..Len(s.items) |->
                                IF j = i THEN [s.items[j] EXCEPT !.state = "rejected",
                                                                 !.error = error]
                                ELSE IF s.items[j].state \in {"fetching", "writing"}
                                    THEN [s.items[j] EXCEPT !.state = "cancelled"]
                                ELSE s.items[j]]])

RejectDownload(s, i, error) ==
    SettleDownload([s EXCEPT !.items[i].state = "rejected", !.items[i].error = error,
                             !.files = FilesAfterFailure(s)])

\* a downloadSVG that opens its destination file before it looks at the response
OnFetchTruncating(s, i, outcome) ==
    IF outcome \in {"ok", "empty"}
    THEN Issue([s EXCEPT !.items[i].state = "writing",
                         !.items[i].body = Body(s.items[i].url, outcome = "empty")],
               "writeFile", 1)
    ELSE RejectDownload([s EXCEPT !.files[s.items[i].filePath] = Truncated], i,
                        <<"Failed to download SVG from">>)

\* fetch of item i has completed: "ok" (a body), "empty" (success, no bytes),
\* "status" (a non-success status) or "throw"
OnFetch(s, i, outcome) ==
    IF outcome \in {"ok", "empty"}
    THEN Issue([s EXCEPT !.items[i].state = "writing",
                         !.items[i].body = Body(s.items[i].url, outcome = "empty")],
               "writeFile", 1)
    ELSE RejectDownload(s, i, <<"Failed to download SVG from">>)

\* a callback that is also invoked when the download is started
ThenOnDownloadTwice(s, i) ==
    LET t == s.items[i]
        called == [s EXCEPT !.progress = Append(Append(@, t.filePath), t.filePath)]
    IN  IF t.onDownload = "none"
            THEN [s EXCEPT !.items[i].state = "resolved", !.items[i].value = t.filePath]
        ELSE IF t.onDownload = "throws"
            THEN [called EXCEPT !.items[i].state = "rejected",
                                !.items[i].error = <<"onDownload threw">>]
        ELSE [called EXCEPT !.items[i].state = "resolved", !.items[i].value = t.filePath]

\* .then(onDownload) on the path downloadSVG resolved with
ThenOnDownload(s, i) ==
    LET t == s.items[i]
        called == [s EXCEPT !.progress = Append(@, t.filePath)]
    IN  IF t.onDownload = "none"
            THEN [s EXCEPT !.items[i].state = "resolved", !.items[i].value = t.filePath]
        ELSE IF t.onDownload = "report"
            THEN [called EXCEPT !.items[i].state = "resolved", !.items[i].value = t.filePath]
        ELSE IF t.onDownload = "other"
            THEN [called EXCEPT !.items[i].state = "resolved", !.items[i].value = OtherValue]
        ELSE [called EXCEPT !.items[i].state = "rejected",
                            !.items[i].error = <<"onDownload threw">>]

\* arrayBuffer and writeFile of item i have completed: "ok", "fail" (nothing
\* written) or "truncated" (the write failed after truncating the file)
OnWrite(s, i, outcome) ==
    LET t == s.items[i]
    IN  IF outcome = "ok" /\ s.dirExists
        THEN SettleDownload(ThenOnDownload([s EXCEPT !.files[t.filePath] = t.body], i))
        ELSE RejectDownload([s EXCEPT !.files[t.filePath] =
                                        IF outcome = "truncated" /\ s.dirExists
                                        THEN Truncated ELSE @],
                            i, <<"Failed to write SVG to">>)

(***************************************************************************)
(* The output directory is prepared: cleanOutputDir and ensureOutputDir.   *)
(***************************************************************************)
\* cli hands downloadAndSaveSVGs a callback that counts and returns the path
EntryCallback(s) == IF s.entry = "cli" THEN "report" ELSE "none"

Prepare(s) ==
    IF s.config.clearOutputDirectory THEN Issue([s EXCEPT !.pc = "clear"], "rm", 1)
    ELSE Issue([s EXCEPT !.pc = "ensure"], "mkdir", 1)

\* a clearing that leaves the files where they are
OnClearKeepingFiles(s, ok) ==
    IF ok THEN Issue([s EXCEPT !.pc = "ensure"], "mkdir", 1)
    ELSE Fail(s, "prepare", <<"Failed to clear output directory">>)

\* rm(outputDir, {recursive, force}) has completed
OnClear(s, ok) ==
    IF ok
    THEN Issue([s EXCEPT !.dirExists = FALSE, !.files = NoFiles, !.pc = "ensure"], "mkdir", 1)
    ELSE Fail(s, "prepare", <<"Failed to clear output directory">>)

\* mkdir(outputDir, {recursive}) has completed
OnEnsure(s, ok) ==
    IF ok
    THEN CallDownload([s EXCEPT !.dirExists = TRUE], s.svgDownloadPaths, "kebab",
                      EntryCallback(s))
    ELSE Fail(s, "prepare", <<"Failed to create output directory">>)

(***************************************************************************)
(* The render requests.                                                    *)
(***************************************************************************)
\* a caller that prepares the output directory although the render requests failed
AfterRenderPreparingAnyway(s, r) ==
    IF s.entry = "direct"
    THEN (IF r.ok THEN Finish([s EXCEPT !.svgDownloadPaths = r.val], s.exitCode, "", r)
          ELSE Fail(s, "render", <<"Failed to get image data from Figma">> \o r.error))
    ELSE Prepare([s EXCEPT !.svgDownloadPaths = IF r.ok THEN r.val ELSE EmptyMap])

AfterRender(s, r) ==
    IF ~r.ok THEN Fail(s, "render", <<"Failed to get image data from Figma">> \o r.error)
    ELSE IF s.entry = "direct"
        THEN Finish([s EXCEPT !.svgDownloadPaths = r.val], s.exitCode, "", r)
    ELSE Prepare([s EXCEPT !.svgDownloadPaths = r.val])

FailedBatchError(r) ==
    IF r.state = "err" THEN <<"Figma getImages error">> ELSE <<"getImages threw">>

\* await Promise.all(idBatches.map(...)), then the loops over the results
SettleRender(s) ==
    LET all == PromiseAll([b \in 1..Len(s.batchState) |-> BatchPromise(s.batchState[b])])
    IN  IF s.renderAll # "pending" \/ all = "pending" THEN s
        ELSE IF all = "rejected"
            THEN AfterRender([s EXCEPT !.renderAll = "rejected"],
                             Thrown(FailedBatchError(
                                 s.batchState[CHOOSE b \in 1..Len(s.batchState) :
                                                BatchFailed(s.batchState[b])])))
        ELSE AfterRender([s EXCEPT !.renderAll = "resolved"],
                         MergeResults(s.svgComponents, s.batchState))

\* the call of getFigmaFileSVGDownloadPaths: every batch's getImages is issued
CallRender(s) ==
    LET idBatches == getFigmaFileRequestBatches(s.svgComponents, BatchSize)
    IN  SettleRender(
            Issue([s EXCEPT !.pc = "render",
                            !.batches = idBatches,
                            !.batchState = [b \in 1..Len(idBatches) |-> InFlight],
                            !.renderAll = "pending"],
                  "getImages", Len(idBatches)))

\* the response of batch b has arrived
OnBatch(s, b, response) == SettleRender([s EXCEPT !.batchState[b] = response])

(***************************************************************************)
(* The document fetch, and the start of cli and run.                       *)
(***************************************************************************)
\* a getFigmaFile that asks once more when the first api.getFile has thrown
OnGetFileRetrying(s, response) ==
    IF ~response.ok /\ s.io.getFile < 2 THEN Issue(s, "getFile", 1)
    ELSE IF ~response.ok THEN Fail(s, "getFile", <<"Failed to load Figma file">>)
    ELSE CallRender([s EXCEPT !.svgComponents =
                        collectSVGComponents(response.T,
                                             ScannedNodes(response.T, NodeIdsArgument(s.config)))])

\* api.getFile has completed: it threw, or gave the document T
OnGetFile(s, response) ==
    IF ~response.ok THEN Fail(s, "getFile", <<"Failed to load Figma file">>)
    ELSE LET found == collectSVGComponents(
                          response.T, ScannedNodes(response.T, NodeIdsArgument(s.config)))
             s1 == [s EXCEPT !.svgComponents = found]
         IN  IF s.entry = "direct" THEN Finish(s1, s.exitCode, "", Returned(found))
             ELSE IF Len(found) = 0
                 THEN Finish(s1, IF s.entry = "cli" THEN "0" ELSE s.exitCode, "",
                             Returned("void"))
             ELSE CallRender(s1)

ValidateAlwaysPasses(cfg) == Returned(cfg)

\* the validation cli and run start with
ValidateStep(cfg) == validateAndCleanConfig(cfg)

\* cli and run up to their first await
StartRun(s) ==
    LET v == ValidateStep(s.config)
    IN  IF ~v.ok THEN Fail(s, "validate", v.error)
        ELSE Issue([s EXCEPT !.config = v.val, !.pc = "getFile"], "getFile", 1)

(***************************************************************************)
(* What the environment can answer.                                        *)
(***************************************************************************)
Node(type, visible, exportSettings, name, parent) ==
    [type |-> type, visible |-> visible, exportSettings |-> exportSettings, name |-> name,
     parent |-> parent]

Page == Node("CANVAS", "undefined", <<>>, "page", 0)

Icon(name, parent) == Node("COMPONENT", "undefined", <<"SVG">>, name, parent)

\* a page with nothing to export; a page with one icon; two pages with one icon
\* each; a page with three icons
PipelineDocuments ==
    { <<Page, Node("FRAME", "undefined", <<>>, "frame", 1)>>,
      <<Page, Icon("a", 1)>>,
      <<Page, Icon("a", 1), Page, Icon("b", 3)>>,
      <<Page, Icon("a", 1), Icon("b", 1), Icon("A", 1)>> }

GetFileResponses ==
    {[ok |-> FALSE, T |-> <<>>]} \cup {[ok |-> TRUE, T |-> T] : T \in PipelineDocuments}

\* the entry of a response for a requested identifier: none, a null URL, its URL
EntryChoices(id) == {<<>>, <<[key |-> id, val |-> 0]>>, <<[key |-> id, val |-> id]>>}

RECURSIVE ImagesFor(_)
ImagesFor(batch) ==
    IF batch = <<>> THEN {<<>>}
    ELSE {h \o t : h \in EntryChoices(Head(batch)), t \in ImagesFor(Tail(batch))}

\* an entry for the identifier 0, which was never requested
ForeignEntry == <<[key |-> 0, val |-> 1]>>

BatchResponses(batch) ==
    {[state |-> "thrown", images |-> <<>>], [state |-> "err", images |-> <<>>]}
        \cup {[state |-> "images", images |-> im] : im \in ImagesFor(batch)}
        \cup {[state |-> "images", images |-> ForeignEntry \o im] : im \in ImagesFor(batch)}
        \cup {[state |-> "images", images |-> im \o ForeignEntry] : im \in ImagesFor(batch)}

(***************************************************************************)
(* The steps.                                                              *)
(***************************************************************************)
Start ==
    /\ pc = "start"
    /\ Becomes(StartRun(State))

GetFileReturn ==
    /\ pc = "getFile"
    /\ \E response \in GetFileResponses : Becomes(OnGetFile(State, response))

BatchReturn ==
    \E b \in 1..Len(batchState) :
        /\ batchState[b].state = "inflight"
        /\ \E response \in BatchResponses(batches[b]) : Becomes(OnBatch(State, b, response))

ClearReturn ==
    /\ pc = "clear"
    /\ \E ok \in BOOLEAN : Becomes(OnClear(State, ok))

EnsureReturn ==
    /\ pc = "ensure"
    /\ \E ok \in BOOLEAN : Becomes(OnEnsure(State, ok))

FetchReturn ==
    \E i \in 1..Len(items) :
        /\ items[i].state = "fetching"
        /\ \E outcome \in {"ok", "empty", "status", "throw"} : Becomes(OnFetch(State, i, outcome))

WriteReturn ==
    \E i \in 1..Len(items) :
        /\ items[i].state = "writing"
        /\ \E outcome \in {"ok", "fail", "truncated"} : Becomes(OnWrite(State, i, outcome))

LoadReturn ==
    /\ pc = "loadSvgo"
    /\ \E outcome \in LoadOutcomes(config) : Becomes(OnLoad(State, outcome))

OptReadReturn ==
    \E i \in 1..Len(optItems) :
        /\ optItems[i].state = "reading"
        /\ \E outcome \in {"ok", "fail", "invalid"} : Becomes(OnOptRead(State, i, outcome))

OptWriteReturn ==
    \E i \in 1..Len(optItems) :
        /\ optItems[i].state = "writing"
        /\ \E outcome \in {"ok", "fail", "truncated"} : Becomes(OnOptWrite(State, i, outcome))

(***************************************************************************)
(* Initial states.                                                         *)
(***************************************************************************)
StringFieldChoices == {Undefined, "", "x"}

NoScale == [kind |-> "undefined", milli |-> 0]

Num(milli) == [kind |-> "num", milli |-> milli]

\* undefined, NaN, -1, 0, 0.005, 0.01, 1, 4, 4.001 and 5
ScaleChoices ==
    {NoScale, [kind |-> "NaN", milli |-> 0]}
        \cup {Num(m) : m \in {0 - 1000, 0, 5, ScaleMin, 1000, ScaleMax, ScaleMax + 1, 5000}}

NoNodeIds == [defined |-> FALSE, list |-> <<>>]

NodeIdList(l) == [defined |-> TRUE, list |-> l]

\* undefined, [], ["5-1", " 1:1 "], [" ", ""] and ["1:1"]
NodeIdsChoices ==
    {NoNodeIds, NodeIdList(<<>>),
     NodeIdList(<< <<"5", "-", "1">>, <<" ", "1", ":", "1", " ">> >>),
     NodeIdList(<< <<" ">>, <<>> >>),
     NodeIdList(<< <<"1", ":", "1">> >>)}

SvgoChoices == {"none", "inline", "path", "both"}

\* the fields of Config the pipeline reads; svgo says which of svgoConfig and
\* svgoConfigPath are supplied
Configs(dirs, tokens, files_, scales, ids, clears, svgos) ==
    {[outputDirectory |-> d, accessToken |-> a, fileId |-> f, scale |-> s, nodeIds |-> n,
      clearOutputDirectory |-> c, svgo |-> o] :
        d \in dirs, a \in tokens, f \in files_, s \in scales, n \in ids, c \in clears,
        o \in svgos}

ConfigInputs ==
    Configs(StringFieldChoices, StringFieldChoices, StringFieldChoices, ScaleChoices,
            NodeIdsChoices, {FALSE}, {"none"})

AnyConfig ==
    [outputDirectory |-> "x", accessToken |-> "x", fileId |-> "x", scale |-> NoScale,
     nodeIds |-> NoNodeIds, clearOutputDirectory |-> FALSE, svgo |-> "none"]

\* nothing called yet, nothing on disk
Idle ==
    [ret |-> NotCalled, entry |-> "direct", pc |-> "idle", config |-> AnyConfig,
     exitCode |-> "unset", failedAt |-> "", svgComponents |-> EmptyMap, batches |-> <<>>,
     batchState |-> <<>>, renderAll |-> "idle", svgDownloadPaths |-> EmptyMap,
     dirExists |-> FALSE, files |-> NoFiles, items |-> <<>>, dlAll |-> "idle",
     progress |-> <<>>, svgWrites |-> <<>>, svgoLoaded |-> "none", optItems |-> <<>>,
     optAll |-> "idle", io |-> NoIO]

StartsPipe(s) ==
    /\ entry = s.entry
    /\ pc = s.pc
    /\ config = s.config
    /\ exitCode = s.exitCode
    /\ failedAt = s.failedAt
    /\ svgComponents = s.svgComponents
    /\ batches = s.batches
    /\ batchState = s.batchState
    /\ renderAll = s.renderAll
    /\ svgDownloadPaths = s.svgDownloadPaths
    /\ dirExists = s.dirExists
    /\ files = s.files
    /\ items = s.items
    /\ dlAll = s.dlAll
    /\ progress = s.progress
    /\ svgWrites = s.svgWrites
    /\ svgoLoaded = s.svgoLoaded
    /\ optItems = s.optItems
    /\ optAll = s.optAll
    /\ io = s.io

Starts(s) == ret = s.ret /\ StartsPipe(s)

\* the output directory before a run: missing, or holding files of an earlier run
InitialDisks ==
    {[dirExists |-> FALSE, files |-> NoFiles],
     [dirExists |-> TRUE, files |-> [NoFiles EXCEPT ![OldFile] = Stale, !["a"] = Stale]]}

OnDisk(s, d) == [s EXCEPT !.dirExists = d.dirExists, !.files = d.files]

(***************************************************************************)
(* Direct calls of the pure functions.                                     *)
(***************************************************************************)
CallCollect ==
    /\ fn = "collectSVGComponents"
    /\ ~ret.done
    /\ ret' = [done |-> TRUE,
               val |-> IF arg.defined THEN collectSVGComponents(arg.T, Children(arg.T, 0))
                       ELSE EmptyMap]
    /\ UNCHANGED <<fn, arg, pipeVars>>

\* a direct call collectSVGComponents(nodes); nodes may be undefined
InitScan ==
    /\ fn = "collectSVGComponents"
    /\ \/ arg = [defined |-> FALSE, T |-> <<>>]
       \/ \E n \in 0..MaxNodes : \E kind \in [1..n -> NodeKinds], p \in ParentVectors(n) :
            arg = [defined |-> TRUE, T |-> Forest(n, kind, p)]
    /\ ret = NotCalled
    /\ StartsPipe(Idle)

NextScan == CallCollect

SpecScan == InitScan /\ [][NextScan]_vars

\* the candidate maps with the keys 1..n in some order
KeyOrders(n) == {p \in [1..n -> 1..n] : \A i, j \in 1..n : p[i] = p[j] => i = j}

CandidateMaps(n) == {[i \in 1..n |-> [key |-> p[i], val |-> NameOf(p[i])]] : p \in KeyOrders(n)}

PlanInputs ==
    {[candidates |-> m, batchSize |-> b] :
        m \in UNION {CandidateMaps(n) : n \in 0..MaxIds}, b \in 1..MaxBatchSize}

CallBatches ==
    /\ fn = "getFigmaFileRequestBatches"
    /\ ~ret.done
    /\ ret' = [done |-> TRUE, val |-> getFigmaFileRequestBatches(arg.candidates, arg.batchSize)]
    /\ UNCHANGED <<fn, arg, pipeVars>>

InitPlan ==
    /\ fn = "getFigmaFileRequestBatches"
    /\ arg \in PlanInputs
    /\ ret = NotCalled
    /\ StartsPipe(Idle)

NextPlan == CallBatches

SpecPlan == InitPlan /\ [][NextPlan]_vars

CallValidate ==
    /\ fn = "validateAndCleanConfig"
    /\ ~ret.done
    /\ ret' = validateAndCleanConfig(arg)
    /\ UNCHANGED <<fn, arg, pipeVars>>

InitConfig ==
    /\ fn = "validateAndCleanConfig"
    /\ arg \in ConfigInputs
    /\ ret = NotCalled
    /\ StartsPipe(Idle)

NextConfig == CallValidate

SpecConfig == InitConfig /\ [][NextConfig]_vars

\* characters of a node identifier as typed, the longest identifier and the
\* longest nodeIds list tried
IdChars == {" ", "-", "1"}

MaxIdLen == 3

MaxIdList == 2

TypedIds == UNION {[1..n -> IdChars] : n \in 0..MaxIdLen}

\* a direct call of validateAndCleanConfig on a valid Config with a nodeIds list
InitNodeIds ==
    /\ fn = "validateAndCleanConfig"
    /\ \E n \in 0..MaxIdList : \E l \in [1..n -> TypedIds] :
            arg = [AnyConfig EXCEPT !.nodeIds = NodeIdList(l)]
    /\ ret = NotCalled
    /\ StartsPipe(Idle)

NextNodeIds == CallValidate

SpecNodeIds == InitNodeIds /\ [][NextNodeIds]_vars

\* a direct call getFigmaFile(api, fileId, nodeIds): the document the service
\* answers with is a forest whose nodes without parent are the top-level
\* containers; the filter is empty or names one or two of the nodes
DocumentKinds ==
    {NodeKind("COMPONENT", "undefined", <<"SVG">>),
     NodeKind("COMPONENT", "false", <<"SVG">>),
     NodeKind("CANVAS", "undefined", <<>>)}

NodeIdFilters(n) ==
    {<<>>} \cup {<<IdString(k)>> : k \in 1..n}
        \cup {<<IdString(j), IdString(k)>> : j, k \in 1..n}

GetFileAnswer ==
    /\ fn = "getFigmaFile"
    /\ pc = "getFile"
    /\ \E ok \in BOOLEAN :
            Becomes(OnGetFile(State, [ok |-> ok, T |-> IF ok THEN arg.T ELSE <<>>]))

InitGetFile ==
    /\ fn = "getFigmaFile"
    /\ \E n \in 0..MaxNodes : \E kind \in [1..n -> DocumentKinds], p \in ParentVectors(n) :
            \E filter \in NodeIdFilters(n) : arg = [T |-> Forest(n, kind, p), nodeIds |-> filter]
    /\ Starts(Issue([Idle EXCEPT !.pc = "getFile",
                                 !.config = [AnyConfig EXCEPT !.nodeIds = NodeIdList(arg.nodeIds)]],
                    "getFile", 1))

NextGetFile == GetFileAnswer

SpecGetFile == InitGetFile /\ [][NextGetFile]_vars

(***************************************************************************)
(* Direct calls of getFigmaFileSVGDownloadPaths and downloadAndSaveSVGs,   *)
(* and the runs of cli and run.                                            *)
(***************************************************************************)
\* candidates handed to the render requester
MaxCandidates == 3

\* entries of a RenderResult map handed to downloadAndSaveSVGs
MaxItems == 2

RenderCandidates ==
    UNION {{[i \in 1..n |-> [key |-> i, val |-> name[i]]] : name \in [1..n -> {"a", "b", ""}]} :
            n \in 0..MaxCandidates}

InitRender ==
    /\ fn = "getFigmaFileSVGDownloadPaths"
    /\ arg \in RenderCandidates
    /\ Starts(CallRender([Idle EXCEPT !.svgComponents = arg]))

NextRender == BatchReturn

SpecRender == InitRender /\ [][NextRender]_vars

\* the RenderResult maps of n entries: distinct export names, the URLs 1..n
RenderResults(n) ==
    {[i \in 1..n |-> [key |-> name[i], val |-> i]] :
        name \in {f \in [1..n -> ExportNames] : \A i, j \in 1..n : f[i] = f[j] => i = j}}

DownloadInputs ==
    {[paths |-> m, namingStrategy |-> st, onDownload |-> cb] :
        m \in UNION {RenderResults(n) : n \in 0..MaxItems}, st \in Strategies, cb \in Callbacks}

InitDownload ==
    /\ fn = "downloadAndSaveSVGs"
    /\ arg \in DownloadInputs
    /\ \E disk \in InitialDisks :
            Starts(CallDownload([OnDisk(Idle, disk) EXCEPT !.svgDownloadPaths = arg.paths],
                                arg.paths, arg.namingStrategy, arg.onDownload))

NextDownload == FetchReturn \/ WriteReturn

SpecDownload == InitDownload /\ [][NextDownload]_vars

\* downloads of the names "b", "a" and "A", whose kebab stems are b, a and a
LaunchedNames == <<"b", "a", "A">>

LaunchedInputs ==
    {[paths |-> [i \in 1..n |-> [key |-> LaunchedNames[i], val |-> i]],
      namingStrategy |-> "kebab", onDownload |-> cb] :
        n \in 1..MaxItems, cb \in {"none", "report"}}

InitDownloadFair ==
    /\ fn = "downloadAndSaveSVGs"
    /\ arg \in LaunchedInputs
    /\ \E disk \in InitialDisks :
            Starts(CallDownload([OnDisk(Idle, disk) EXCEPT !.svgDownloadPaths = arg.paths],
                                arg.paths, arg.namingStrategy, arg.onDownload))

\* the event loop gets to every pending fetch and write
SpecDownloadFair ==
    /\ InitDownloadFair
    /\ [][NextDownload]_vars
    /\ WF_vars(FetchReturn)
    /\ WF_vars(WriteReturn)

\* cli builds its Config from the command line: the output directory, the scale
\* and the node identifiers are always set, and there is no inline svgoConfig
PipelineConfigs(e) ==
    IF e = "cli"
    THEN Configs({"x"}, {"", "x"}, {"x"}, {Num(0), Num(5000)},
                 {NodeIdList(<<>>), NodeIdList(<< <<"1", "-", "1">> >>)}, BOOLEAN,
                 {"none", "path"})
    ELSE Configs({"x"}, {"", "x"}, {"x"}, {NoScale, Num(5000)},
                 {NoNodeIds, NodeIdList(<< <<"1", "-", "1">> >>)}, BOOLEAN, SvgoChoices)

Init ==
    /\ fn \in {"cli", "run"}
    /\ arg \in InitialDisks
    /\ \E cfg \in PipelineConfigs(fn) :
            Starts(OnDisk([Idle EXCEPT !.entry = fn, !.pc = "start", !.config = cfg], arg))

Next ==
    \/ Start
    \/ GetFileReturn
    \/ BatchReturn
    \/ ClearReturn
    \/ EnsureReturn
    \/ FetchReturn
    \/ WriteReturn
    \/ LoadReturn
    \/ OptReadReturn
    \/ OptWriteReturn

Spec == Init /\ [][Next]_vars


(***************************************************************************)
(* The claims.                                                             *)
(***************************************************************************)
RECURSIVE Ancestors(_, _)
Ancestors(T, k) ==
    IF T[k].parent = 0 THEN {} ELSE {T[k].parent} \cup Ancestors(T, T[k].parent)

ScanReturned == fn = "collectSVGComponents" /\ ret.done /\ arg.defined

\* C4: collectSVGComponents never descends into a matched node: no identifier in
\* the returned map has a proper ancestor that is a match, whether or not the
\* node itself matches.
C4_NoDescentIntoMatch ==
    ScanReturned =>
        \A i \in 1..Len(ret.val) :
            \A a \in Ancestors(arg.T, ret.val[i].key) : ~IsMatch(arg.T[a])

\* a matched node with a matching child was scanned, and the parent recorded
C4_Witness ==
    /\ ScanReturned
    /\ \E k \in 1..Len(arg.T) :
        /\ arg.T[k].parent # 0
        /\ IsMatch(arg.T[k])
        /\ IsMatch(arg.T[arg.T[k].parent])
        /\ MapHas(ret.val, arg.T[k].parent)

RECURSIVE Flatten(_)
Flatten(seqs) == IF seqs = <<>> THEN <<>> ELSE Head(seqs) \o Flatten(Tail(seqs))

CeilDiv(l, b) == (l + b - 1) \div b

PlanReturned == fn = "getFigmaFileRequestBatches" /\ ret.done

\* C5: for a sequence of L identifiers and a batch size B >= 1,
\* getFigmaFileRequestBatches returns ceil(L/B) batches, each of B identifiers
\* except possibly the last, none empty, whose concatenation is the sequence;
\* for L = 0 it returns no batch.
C5_BatchesPartition ==
    PlanReturned =>
        LET ids == MapKeys(arg.candidates)
            out == ret.val
        IN  /\ Len(out) = CeilDiv(Len(ids), arg.batchSize)
            /\ \A j \in 1..Len(out) :
                /\ Len(out[j]) >= 1
                /\ Len(out[j]) <= arg.batchSize
                /\ j < Len(out) => Len(out[j]) = arg.batchSize
            /\ Flatten(out) = ids
            /\ Len(ids) = 0 => out = <<>>

\* several batches were returned, the last one shorter than the batch size
C5_Witness ==
    /\ PlanReturned
    /\ Len(ret.val) >= 2
    /\ Len(ret.val[Len(ret.val)]) < arg.batchSize

ConfigReturned == fn = "validateAndCleanConfig" /\ ret.done /\ ret.ok

\* C10: every Config validateAndCleanConfig returns has a scale that is undefined
\* or within [0.01, 4], and a non-empty outputDirectory, accessToken and fileId.
C10_ReturnedConfigIsValid ==
    ConfigReturned =>
        /\ ret.val.scale.kind # "undefined" =>
            /\ ret.val.scale.kind = "num"
            /\ ret.val.scale.milli >= ScaleMin
            /\ ret.val.scale.milli <= ScaleMax
        /\ ~FalsyString(ret.val.outputDirectory)
        /\ ~FalsyString(ret.val.accessToken)
        /\ ~FalsyString(ret.val.fileId)

RenderCalled == fn = "getFigmaFileSVGDownloadPaths"

\* identifier k has a non-empty URL in some batch response
HasUrl(k) ==
    \E b \in 1..Len(batchState) : \E j \in 1..Len(batchState[b].images) :
        batchState[b].images[j].key = k /\ batchState[b].images[j].val # 0

\* C2: when getFigmaFileSVGDownloadPaths succeeds, every key of the candidates
\* map received a non-empty URL in the merged responses (it fails when one is
\* absent from every response or present with an empty or null URL).
C2_EveryCandidateHasUrl ==
    (RenderCalled /\ ret.done /\ ret.ok) =>
        \A i \in 1..Len(svgComponents) : HasUrl(svgComponents[i].key)

\* C3: every batch call is issued before any response is processed, and once a
\* batch call has thrown or returned an error field the operation has failed:
\* no RenderResult map is returned, whatever the other batches answered and in
\* whatever order.
C3_NoPartialResult ==
    RenderCalled =>
        /\ io.getImages = Len(batches)
        /\ \A i \in 1..Len(svgComponents) :
            \E b \in 1..Len(batches) : Includes(batches[b], svgComponents[i].key)
        /\ (\E b \in 1..Len(batchState) : BatchFailed(batchState[b])) =>
            /\ ret.done
            /\ ~ret.ok
            /\ svgDownloadPaths = EmptyMap
        /\ (ret.done /\ ret.ok) =>
            \A b \in 1..Len(batchState) : batchState[b].state = "images"

\* of two batches one has answered with a URL and the other has failed
C3_Witness ==
    /\ RenderCalled
    /\ Len(batches) >= 2
    /\ \E b, c \in 1..Len(batchState) :
        /\ BatchFailed(batchState[b])
        /\ batchState[c].state = "images"
        /\ \E j \in 1..Len(batchState[c].images) : batchState[c].images[j].val # 0
    /\ ret.done
    /\ ~ret.ok

DownloadCalled == fn = "downloadAndSaveSVGs"

\* the fetch or the write of the item failed
FetchOrWriteFailed(t) ==
    t.state = "rejected" /\ t.error \in {<<"Failed to download SVG from">>, <<"Failed to write SVG to">>}

\* the item wrote its file (its progress callback may have thrown afterwards)
HasWritten(t) == t.state = "resolved" \/ t.error = <<"onDownload threw">>

\* no other item has the same destination path as item i
OwnsPath(i) == \A j \in 1..Len(items) : items[j].filePath = items[i].filePath => j = i

\* C1: once the fetch or the write of an item of downloadAndSaveSVGs has failed,
\* the operation has failed, and every file an item wrote, before or after that
\* failure, is on disk: with the bytes fetched for it when no other item writes
\* the same path.
C1_FailureKeepsWrittenFiles ==
    DownloadCalled =>
        /\ (\E i \in 1..Len(items) : FetchOrWriteFailed(items[i])) =>
            (dlAll = "rejected" /\ ret.done /\ ~ret.ok)
        /\ \A i \in 1..Len(items) :
            HasWritten(items[i]) =>
                /\ files[items[i].filePath].kind # "absent"
                /\ OwnsPath(i) => files[items[i].filePath] = items[i].body

\* one item has failed, another has written its file
C1_Witness ==
    /\ DownloadCalled
    /\ \E i, j \in 1..Len(items) :
        /\ FetchOrWriteFailed(items[i])
        /\ items[j].state = "resolved"
        /\ files[items[j].filePath] = items[j].body
    /\ ret.done
    /\ ~ret.ok

\* every item has fetched and written
AllWritten == \A i \in 1..Len(items) : HasWritten(items[i])

\* the destination of the i-th entry of the map the call was given
Destination(i) == caseStrategy(arg.namingStrategy, arg.paths[i].key)

Succeeded == pc = "done" /\ failedAt = "" /\ exitCode # "1" /\ ret.done /\ ret.ok

\* C7: optimizing is optional: with neither svgoConfig nor svgoConfigPath, once
\* every download (there is at least one) has succeeded, the run of cli or of
\* run has completed successfully and the downloaded files are as they were
\* written: no optimizer configuration is loaded and no file is read back.
C7_OptimizeIsOptional ==
    (fn \in {"cli", "run"} /\ config.svgo = "none" /\ items # <<>> /\ dlAll = "resolved") =>
        /\ Succeeded
        /\ io.loadConfig = 0
        /\ io.readFile = 0
        /\ \A i \in 1..Len(items) : files[items[i].filePath].svgo = "raw"

\* C8: with an inline svgoConfig and no svgoConfigPath, optimizeSVGs loads no
\* configuration from a file and optimizes every written file with the inline
\* configuration.
C8_InlineConfigIsUsed ==
    (fn \in {"cli", "run"} /\ config.svgo = "inline" /\ items # <<>>) =>
        /\ io.loadConfig = 0
        /\ \A i \in 1..Len(optItems) :
            optItems[i].state \in {"writing", "resolved"} => optItems[i].data.svgo = "inline"
        /\ (pc = "done" /\ dlAll = "resolved" /\ failedAt = "") => optAll = "resolved"

\* the Config the run was started with does not pass validateAndCleanConfig
ConfigIsInvalid == ~validateAndCleanConfig(config).ok

\* C9: a run whose Config fails validateAndCleanConfig does no network or disk
\* I/O at all: no document fetch, no render request, no download, and the output
\* directory is neither created nor cleared nor written; it ends as failed.
C9_NoIOAfterConfigError ==
    (fn \in {"cli", "run"} /\ ConfigIsInvalid) =>
        /\ io = NoIO
        /\ items = <<>>
        /\ batchState = <<>>
        /\ pc \in {"start", "done"}
        /\ pc = "done" =>
            /\ failedAt = "validate"
            /\ IF fn = "cli" THEN exitCode = "1" ELSE ~ret.ok

\* a run has ended on a Config without an access token, the output directory
\* still holding the files of an earlier run
C9_Witness ==
    /\ fn \in {"cli", "run"}
    /\ pc = "done"
    /\ failedAt = "validate"
    /\ config.accessToken = ""
    /\ config.clearOutputDirectory
    /\ files[OldFile] = Stale

\* the run of cli or run, and the files the output directory held before it
IsRun == fn \in {"cli", "run"}

ExistedBefore(p) == arg.files[p].kind # "absent"

\* C11: with clearOutputDirectory, once the downloads of a run are launched no
\* file that was in the output directory before the run is left (none is there
\* when the first download write begins), and a failed clearing ends the run
\* with no download and no write; without clearOutputDirectory the directory is
\* never cleared: no rm is issued and every file that was there is still there.
C11_ClearedBeforeWrites ==
    IsRun =>
        /\ (config.clearOutputDirectory /\ (items # <<>> \/ io.fetch > 0 \/ io.writeFile > 0)) =>
            /\ io.rm = 1
            /\ \A p \in Paths : files[p].kind # "stale"
            /\ files[OldFile] = Absent
        /\ (config.clearOutputDirectory /\ io.rm = 1 /\ io.mkdir = 0 /\ pc # "clear") =>
            /\ pc = "done"
            /\ failedAt = "prepare"
            /\ (IF fn = "cli" THEN exitCode = "1" ELSE ~ret.ok)
            /\ items = <<>>
            /\ io.fetch = 0
            /\ io.writeFile = 0
            /\ files = arg.files
        /\ ~config.clearOutputDirectory =>
            /\ io.rm = 0
            /\ \A p \in Paths : ExistedBefore(p) => files[p].kind # "absent"
            /\ files[OldFile] = arg.files[OldFile]

\* a run with clearOutputDirectory found old-file in the directory and has
\* written a download: old-file is gone
C11_Witness ==
    /\ IsRun
    /\ config.clearOutputDirectory
    /\ arg.files[OldFile] = Stale
    /\ \E i \in 1..Len(items) : items[i].state = "resolved"
    /\ files[OldFile] = Absent

\* the code the process ends with: process.exitCode, 0 when it was never set
ExitStatus == IF exitCode = "1" THEN 1 ELSE 0

\* something of the phase has failed
RenderFailed == \E b \in 1..Len(batchState) : BatchFailed(batchState[b])

DownloadFailed == \E i \in 1..Len(items) : items[i].state = "rejected"

OptimizeFailed ==
    \/ \E i \in 1..Len(optItems) : optItems[i].state = "rejected"
    \/ io.loadConfig = 1 /\ pc # "loadSvgo" /\ svgoLoaded = "none"

\* C12: cli ends with exit code 0 when the whole pipeline succeeded or the scan
\* found nothing to export, and with exit code 1 when the validation, the
\* document fetch, a render request, the preparation of the output directory,
\* a download or the optimization failed; the code is set when cli returns.
C12_ExitCodes ==
    fn = "cli" =>
        /\ pc # "done" => exitCode = "unset"
        /\ pc = "done" =>
            /\ ret = Returned("void")
            /\ ExitStatus = (IF failedAt = "" THEN 0 ELSE 1)
            /\ failedAt \in {"", "validate", "getFile", "render", "prepare", "download",
                             "optimize"}
        /\ (ConfigIsInvalid /\ pc # "start") => (pc = "done" /\ ExitStatus = 1)
        /\ (RenderFailed \/ DownloadFailed \/ OptimizeFailed) => (pc = "done" /\ ExitStatus = 1)
        /\ (pc = "done" /\ io.getFile = 1 /\ failedAt # "getFile" /\ svgComponents = EmptyMap) =>
            (exitCode = "0" /\ io.getImages = 0)
        /\ (dlAll = "resolved" /\ (optAll = "resolved" \/ SkipsOptimize(State))) =>
            (pc = "done" /\ ExitStatus = 0)

\* cli has ended with exit code 1 on a failed optimization after two downloads
C12_Witness ==
    /\ fn = "cli"
    /\ pc = "done"
    /\ Len(items) = 2
    /\ dlAll = "resolved"
    /\ OptimizeFailed
    /\ exitCode = "1"

\* C13: when a download or a write of an item fails, the error downloadAndSaveSVGs
\* throws is the failure of the first item that failed, wrapped with the
\* operation's own context "Failed to download SVGs".
C13_FailureIsWrapped ==
    (DownloadCalled /\ ret.done /\ ~ret.ok) =>
        /\ Len(ret.error) = 2
        /\ ret.error[1] = "Failed to download SVGs"
        /\ \E i \in 1..Len(items) : items[i].state = "rejected" /\ items[i].error = Tail(ret.error)

\* loadSvgoConfig has returned and gave no configuration: it threw or found none
LoadFailed ==
    /\ io.loadConfig = 1
    /\ pc # "loadSvgo"
    /\ svgoLoaded \notin {"file", "discovered"}

\* optimizeSVGs was called with neither svgoConfig nor svgoConfigPath
NothingToLoad == fn = "run" /\ config.svgo = "none" /\ dlAll = "resolved"

\* C14: when optimizeSVGs resolves no optimizer configuration (loading it threw,
\* gave nothing, or there was nothing to load), it has failed without reading or
\* writing a file: there is no optimizeSVG task, and every downloaded file holds
\* what its download wrote.
C14_LoadFailureTouchesNoFile ==
    (IsRun /\ (LoadFailed \/ NothingToLoad)) =>
        /\ pc = "done"
        /\ failedAt = "optimize"
        /\ (IF fn = "cli" THEN exitCode = "1" ELSE ~ret.ok)
        /\ optItems = <<>>
        /\ io.readFile = 0
        /\ io.writeFile = Len(items)
        /\ \A p \in Paths : files[p].svgo = "raw"
        /\ \A i \in 1..Len(items) : OwnsPath(i) => files[items[i].filePath] = items[i].body

\* two files were downloaded and loading the optimizer configuration failed
C14_Witness ==
    /\ IsRun
    /\ LoadFailed
    /\ Len(items) = 2
    /\ \A i \in 1..Len(items) : files[items[i].filePath] = items[i].body
    /\ failedAt = "optimize"

\* an entry without its leading and trailing whitespace, every dash a colon
Normalized(e) ==
    LET inner == {i \in 1..Len(e) : e[i] # " "}
        lo == CHOOSE i \in inner : \A j \in inner : i <= j
        hi == CHOOSE i \in inner : \A j \in inner : i >= j
    IN  IF inner = {} THEN <<>>
        ELSE [i \in 1..(hi - lo + 1) |-> IF e[lo + i - 1] = "-" THEN ":" ELSE e[lo + i - 1]]

\* the normalized entries of the list that are not empty, in the list's order
NormalizedList(l) == SelectSeq([i \in 1..Len(l) |-> Normalized(l[i])], LAMBDA e : e # <<>>)

NodeIdsCleaned == fn = "validateAndCleanConfig" /\ arg.nodeIds.defined /\ ret.done

\* C15: validateAndCleanConfig replaces nodeIds by the list of its entries
\* trimmed, with every dash a colon, without the entries that are empty after
\* trimming and in the same order; normalizing the result again changes
\* nothing; a list of empty and whitespace entries becomes the empty list, and
\* no list makes the validation fail.
C15_NodeIdsNormalized ==
    NodeIdsCleaned =>
        LET given == arg.nodeIds.list
        IN  /\ ret.ok = validateAndCleanConfig([arg EXCEPT !.nodeIds = NoNodeIds]).ok
            /\ ret.ok =>
                /\ ret.val.nodeIds.defined
                /\ ret.val.nodeIds.list = NormalizedList(given)
                /\ validateAndCleanConfig(ret.val) = ret
                /\ (\A i \in 1..Len(given) : \A j \in 1..Len(given[i]) : given[i][j] = " ") =>
                        ret.val.nodeIds.list = <<>>

\* a list of a padded identifier with a dash and an entry of whitespace was cleaned
C15_Witness ==
    /\ NodeIdsCleaned
    /\ ret.ok
    /\ Len(arg.nodeIds.list) = 2
    /\ arg.nodeIds.list[1] = <<" ", " ">>
    /\ arg.nodeIds.list[2] = <<"1", "-", " ">>
    /\ ret.val.nodeIds.list = << <<"1", ":">> >>

\* the fields of a Config that are invalid, and the order they are checked in
InvalidFields(cfg) ==
    {f \in {"outputDirectory", "accessToken", "fileId"} : cfg[f] \in {"", Undefined}}
        \cup (IF cfg.scale.kind = "NaN"
                 \/ (cfg.scale.kind = "num"
                        /\ (cfg.scale.milli < ScaleMin \/ cfg.scale.milli > ScaleMax))
              THEN {"scale"} ELSE {})

FieldOrder == <<"outputDirectory", "accessToken", "fileId", "scale">>

FirstInvalid(cfg) ==
    FieldOrder[CHOOSE i \in 1..4 :
                /\ FieldOrder[i] \in InvalidFields(cfg)
                /\ \A j \in 1..(i - 1) : FieldOrder[j] \notin InvalidFields(cfg)]

MessageNaming(field) ==
    IF field = "outputDirectory" THEN <<"Missing required parameter: output path">>
    ELSE IF field = "accessToken"
        THEN <<"Missing required parameter: Figma personal access token">>
    ELSE IF field = "fileId" THEN <<"Missing required parameter: Figma file ID">>
    ELSE <<"Invalid Figma image scale value, must be between 0.01 and 4">>

ValidateCalled == fn = "validateAndCleanConfig" /\ ret.done

\* C16: when several fields of the Config are invalid, validateAndCleanConfig
\* fails naming the first of them in the order output directory, access token,
\* file identifier, scale; the nodeIds list, whatever it holds, changes neither
\* the outcome nor the field named.
C16_FirstInvalidFieldIsNamed ==
    ValidateCalled =>
        /\ Cardinality(InvalidFields(arg)) >= 2 =>
            (~ret.ok /\ ret.error = MessageNaming(FirstInvalid(arg)))
        /\ ~ret.ok =>
            /\ InvalidFields(arg) # {}
            /\ ret.error = MessageNaming(FirstInvalid(arg))
            /\ ret = validateAndCleanConfig([arg EXCEPT !.nodeIds = NoNodeIds])
        /\ ret.ok => validateAndCleanConfig([arg EXCEPT !.nodeIds = NoNodeIds]).ok

\* a Config without access token and file identifier, with the scale 5 and a
\* nodeIds list of blank entries, was rejected naming the access token
C16_Witness ==
    /\ ValidateCalled
    /\ InvalidFields(arg) = {"accessToken", "fileId", "scale"}
    /\ arg.nodeIds = NodeIdList(<< <<" ">>, <<>> >>)
    /\ ~ret.ok
    /\ ret.error = MessageNaming("accessToken")

\* the naming strategy gives the export names of the map pairwise distinct stems
NamesStayDistinct ==
    \A i, j \in 1..Len(arg.paths) :
        caseStrategy(arg.namingStrategy, arg.paths[i].key)
            = caseStrategy(arg.namingStrategy, arg.paths[j].key) => i = j

\* C17: when the naming strategy maps the export names of the RenderResult map
\* to pairwise distinct strings, no two download tasks have the same destination
\* path, a file written by a task holds what that task fetched whatever the
\* other tasks do, and once all downloads have succeeded every destination
\* holds the content fetched from its own entry's URL.
C17_DistinctNamesDistinctFiles ==
    (DownloadCalled /\ NamesStayDistinct) =>
        /\ Len(items) = Len(arg.paths)
        /\ \A i, j \in 1..Len(items) : items[i].filePath = items[j].filePath => i = j
        /\ \A i \in 1..Len(items) :
            /\ items[i].filePath = Destination(i)
            /\ items[i].state = "resolved" =>
                /\ files[Destination(i)] = items[i].body
                /\ files[Destination(i)].url = arg.paths[i].val
        /\ dlAll = "resolved" =>
            \A i \in 1..Len(arg.paths) :
                /\ files[Destination(i)].kind \in {"svg", "empty"}
                /\ files[Destination(i)].url = arg.paths[i].val

\* the names "a" and "b" were downloaded to two paths, the second entry first
C17_Witness ==
    /\ DownloadCalled
    /\ NamesStayDistinct
    /\ Len(arg.paths) = 2
    /\ dlAll = "resolved"
    /\ progress = <<Destination(2), Destination(1)>>
    /\ files[Destination(1)].url = arg.paths[1].val
    /\ files[Destination(2)].url = arg.paths[2].val

\* how many batches hold the identifier
RequestsHolding(id) == Cardinality({b \in 1..Len(batches) : Includes(batches[b], id)})

\* how many downloads fetch the URL
FetchesOf(url) == Cardinality({i \in 1..Len(items) : items[i].url = url})

\* C18: nothing is retried in a run, whatever fails: api.getFile is called at
\* most once; once the render requests are issued every candidate identifier is
\* in exactly one of them, each identifier once, and one getImages call is made
\* per batch; one fetch is made per entry of the RenderResult map, each URL of
\* the map by one download; and the directory is cleared and created, and the
\* optimizer configuration loaded, at most once.
C18_NoRetry ==
    IsRun =>
        /\ io.getFile <= 1
        /\ io.getImages = Len(batches)
        /\ Len(batchState) = Len(batches)
        /\ batches # <<>> =>
            /\ \A i \in 1..Len(svgComponents) : RequestsHolding(svgComponents[i].key) = 1
            /\ Len(Flatten(batches)) = Len(svgComponents)
        /\ io.fetch = Len(items)
        /\ items # <<>> =>
            /\ Len(items) = Len(svgDownloadPaths)
            /\ \A i \in 1..Len(svgDownloadPaths) : FetchesOf(svgDownloadPaths[i].val) = 1
        /\ io.writeFile <= Len(items) + Len(optItems)
        /\ io.readFile = Len(optItems)
        /\ Len(optItems) <= Len(items)
        /\ io.rm <= 1
        /\ io.mkdir <= 1
        /\ io.loadConfig <= 1

\* a run of two render requests and three downloads has failed on a download
C18_Witness ==
    /\ IsRun
    /\ io.getFile = 1
    /\ io.getImages = 2
    /\ io.fetch = 3
    /\ \E i \in 1..Len(items) : items[i].state = "rejected"
    /\ failedAt = "download"
    /\ \A i \in 1..Len(items) : items[i].state \in {"resolved", "rejected"}

\* the optimize phase has started: optimizeSVGs was called
OptimizeStarted ==
    io.loadConfig > 0 \/ io.readFile > 0 \/ optItems # <<>> \/ failedAt = "optimize"

\* C19: the phases of a run are ordered: a render request is issued only after
\* the document fetch has returned; a download is fetched only after every
\* render batch has answered without failure and the output directory has been
\* ensured; the optimizer reads or writes a file only after every download has
\* succeeded; and after a failed download phase optimizeSVGs is never called.
C19_PhasesAreOrdered ==
    IsRun =>
        /\ io.getImages > 0 =>
            /\ io.getFile = 1
            /\ pc \notin {"start", "getFile"}
            /\ svgComponents # EmptyMap
        /\ (io.fetch > 0 \/ io.rm > 0 \/ io.mkdir > 0) =>
            /\ renderAll = "resolved"
            /\ \A b \in 1..Len(batchState) : batchState[b].state = "images"
        /\ (io.fetch > 0 \/ items # <<>>) =>
            /\ io.mkdir = 1
            /\ dirExists
            /\ pc \notin {"start", "getFile", "render", "clear", "ensure"}
        /\ OptimizeStarted =>
            /\ dlAll = "resolved"
            /\ \A i \in 1..Len(items) : items[i].state = "resolved"
            /\ io.writeFile >= Len(items)
        /\ (dlAll = "rejected" \/ failedAt = "download") =>
            /\ ~OptimizeStarted
            /\ pc = "done"
            /\ optAll = "idle"

\* a run went through every phase: three downloads, then three files optimized
C19_Witness ==
    /\ IsRun
    /\ Len(batches) = 2
    /\ Len(items) = 3
    /\ Len(optItems) = 3
    /\ optAll = "resolved"
    /\ pc = "done"
    /\ failedAt = ""

\* a match: an exportable component, not explicitly invisible, with an export
\* setting of the vector format
Exportable(n) ==
    /\ n.type = "COMPONENT"
    /\ n.visible \in {"true", "undefined"}
    /\ "SVG" \in {n.exportSettings[i] : i \in 1..Len(n.exportSettings)}

\* the matches of the forest that are under no match
TopMatches(T) ==
    {k \in 1..Len(T) : Exportable(T[k]) /\ \A a \in Ancestors(T, k) : ~Exportable(T[a])}

\* C20: collectSVGComponents returns exactly the pairs identifier -> name of the
\* matching nodes of the forest that have no matching proper ancestor, each
\* once: invisible nodes, components without an SVG export setting and other
\* non-matching nodes are descended into; an empty or undefined input gives the
\* empty map.
C20_ExactlyTheTopMatches ==
    (fn = "collectSVGComponents" /\ ret.done) =>
        IF ~arg.defined \/ arg.T = <<>> THEN ret.val = EmptyMap
        ELSE /\ {ret.val[i].key : i \in 1..Len(ret.val)} = TopMatches(arg.T)
             /\ Len(ret.val) = Cardinality(TopMatches(arg.T))
             /\ \A i \in 1..Len(ret.val) : ret.val[i].val = arg.T[ret.val[i].key].name

\* a match under an invisible component under a component without an SVG
\* export setting was recorded
C20_Witness ==
    /\ ScanReturned
    /\ Len(arg.T) = 3
    /\ arg.T[1].type = "COMPONENT" /\ arg.T[1].exportSettings = <<"PNG">>
    /\ arg.T[2].parent = 1 /\ arg.T[2].type = "COMPONENT" /\ arg.T[2].visible = "false"
    /\ arg.T[3].parent = 2 /\ Exportable(arg.T[3])
    /\ ret.val = <<[key |-> 3, val |-> NameOf(3)]>>

\* the run ended on a failed document fetch, on a failed render request, or on
\* a scan that found nothing
EndedBeforePrepare ==
    \/ failedAt \in {"getFile", "render"}
    \/ RenderFailed
    \/ pc = "done" /\ failedAt = "" /\ io.getFile = 1 /\ svgComponents = EmptyMap

\* C21: a run that ends on a failed document fetch, on a failed render request
\* or on an empty scan issues no download and leaves the output directory as it
\* found it: nothing is cleared, created or written, with or without
\* clearOutputDirectory; after an empty scan no render request is issued.
C21_NoLocalEffectBeforePrepare ==
    (IsRun /\ EndedBeforePrepare) =>
        /\ pc = "done"
        /\ io.rm = 0
        /\ io.mkdir = 0
        /\ io.fetch = 0
        /\ io.writeFile = 0
        /\ io.readFile = 0
        /\ items = <<>>
        /\ files = arg.files
        /\ dirExists = arg.dirExists
        /\ svgComponents = EmptyMap => io.getImages = 0

\* a run with clearOutputDirectory on a directory with old files has ended on a
\* failed render request: the old files are there
C21_Witness ==
    /\ IsRun
    /\ config.clearOutputDirectory
    /\ arg.files[OldFile] = Stale
    /\ RenderFailed
    /\ failedAt = "render"
    /\ files[OldFile] = Stale

\* how often the progress callback was invoked with the path
InvocationsWith(p) == Cardinality({k \in 1..Len(progress) : progress[k] = p})

\* the items of the path whose fetch and write have succeeded
WrittenTo(p) == {i \in 1..Len(items) : items[i].filePath = p /\ HasWritten(items[i])}

\* cli's counter svgDownloadPaths.size - remainingFiles: one per invocation
Completed == Len(progress)

\* C22: a supplied progress callback is invoked once for each item whose fetch
\* and write have succeeded, with that item's path and after its write, and not
\* for an item whose fetch or write failed or is pending; so the count of the
\* invocations is the number of items written, within 0..M for a map of M
\* entries, and M once the download phase has succeeded.
C22_CallbackOncePerWrittenItem ==
    DownloadCalled =>
        IF arg.onDownload = "none" THEN progress = <<>>
        ELSE /\ \A p \in Paths : InvocationsWith(p) = Cardinality(WrittenTo(p))
             /\ \A k \in 1..Len(progress) :
                    /\ WrittenTo(progress[k]) # {}
                    /\ files[progress[k]].kind # "absent"
             /\ Completed = Cardinality({i \in 1..Len(items) : HasWritten(items[i])})
             /\ Completed <= Len(arg.paths)
             /\ dlAll = "resolved" => Completed = Len(arg.paths)
             /\ io.writeFile >= Completed

\* of two downloads with cli's callback one was written and reported, the other
\* failed: the counter is 1 of 2
C22_Witness ==
    /\ DownloadCalled
    /\ arg.onDownload = "report"
    /\ Len(items) = 2
    /\ FetchOrWriteFailed(items[1])
    /\ items[2].state = "resolved"
    /\ progress = <<items[2].filePath>>

\* downloadAndSaveSVGs has thrown
FailureReported == DownloadCalled /\ ret.done /\ ~ret.ok

\* item i has ended: it failed, or it wrote its file
RanToCompletion(i) ==
    /\ items[i].state \in {"resolved", "rejected"}
    /\ HasWritten(items[i]) => files[items[i].filePath].kind # "absent"

AllRanToCompletion == \A i \in 1..Len(items) : RanToCompletion(i)

\* C23: no download is cancelled: once downloadAndSaveSVGs has reported the
\* failure of an item, every item that is still pending goes on, and (the
\* pending I/O being scheduled fairly) ends as a failure of its own or with its
\* file written to disk.
C23_NoCancellation == FailureReported ~> AllRanToCompletion

\* the failure is reported while the write of another item is pending
C23_Witness ==
    /\ FailureReported
    /\ \E i, j \in 1..Len(items) :
        /\ FetchOrWriteFailed(items[i])
        /\ items[j].state = "writing"
        /\ files[items[j].filePath] = Absent

\* C24: when getFigmaFileSVGDownloadPaths succeeds and every candidate
\* identifier received a non-empty URL, the RenderResult map has one entry per
\* candidate identifier (the size of the candidates map), also when two
\* candidates carry the same export name, and every candidate's URL is in it.
C24_OneEntryPerCandidate ==
    (RenderCalled /\ ret.done /\ ret.ok
        /\ \A i \in 1..Len(svgComponents) : HasUrl(svgComponents[i].key)) =>
        /\ Len(ret.val) = Len(svgComponents)
        /\ \A i \in 1..Len(svgComponents) :
            \E j \in 1..Len(ret.val) : ret.val[j].val = svgComponents[i].key

\* the entries of all responses, once every batch has answered with images
ReturnedEntries == ConcatImages(batchState)

AllBatchesAnswered ==
    batchState # <<>> /\ \A b \in 1..Len(batchState) : batchState[b].state = "images"

\* the identifier of some returned entry is not a key of the candidates map
SomeUnknownIdentifier ==
    \E j \in 1..Len(ReturnedEntries) : ~MapHas(svgComponents, ReturnedEntries[j].key)

UnknownIdentifierError ==
    /\ ret.done
    /\ ~ret.ok
    /\ ret.error[Len(ret.error)] = "No SVG name found for node"

\* C25: getFigmaFileSVGDownloadPaths fails with the error "No SVG name found
\* for node" only when a returned identifier is not a key of the candidates
\* map, whatever the export names of the keys are, and it does fail with it
\* when every batch answered, every returned entry has a URL and one of the
\* returned identifiers is not a key.
C25_UnknownIdentifierOnly ==
    RenderCalled =>
        /\ UnknownIdentifierError => (AllBatchesAnswered /\ SomeUnknownIdentifier)
        /\ (AllBatchesAnswered /\ SomeUnknownIdentifier
                /\ \A j \in 1..Len(ReturnedEntries) : ReturnedEntries[j].val # 0) =>
            UnknownIdentifierError

\* the fetch of item i fails in this step
FetchFails(i) == items[i].state = "fetching" /\ items'[i].state = "rejected"

\* C26: the step in which the fetch of an item throws or returns a non-success
\* status rejects the item with the download error and leaves every file as it
\* was, the item's destination included, absent or not; no write is issued.
C26_FailedFetchWritesNothing ==
    [][\A i \in 1..Len(items) :
            (DownloadCalled /\ FetchFails(i)) =>
                /\ items'[i].error = <<"Failed to download SVG from">>
                /\ files' = files
                /\ files'[items[i].filePath] = files[items[i].filePath]
                /\ io'.writeFile = io.writeFile
                /\ items'[i].body = Absent]_vars

\* the fetch of an item failed whose destination held a file of an earlier
\* run: the file is as it was
C26_Witness ==
    /\ DownloadCalled
    /\ \E i \in 1..Len(items) :
        /\ items[i].state = "rejected"
        /\ items[i].error = <<"Failed to download SVG from">>
        /\ items[i].filePath = "a"
        /\ OwnsPath(i)
        /\ files["a"] = Stale

\* the top-level containers the filter lets through: all of them when it is empty
Listed(T, filter) ==
    {k \in 1..Len(T) : T[k].parent = 0 /\ (filter = <<>> \/ \E i \in 1..Len(filter) :
                                                                filter[i] = IdString(k))}

\* the matches under a listed top-level container that are under no other match
\* below that container
ExpectedCandidates(T, filter) ==
    {k \in 1..Len(T) :
        /\ T[k].parent # 0
        /\ Exportable(T[k])
        /\ Ancestors(T, k) \cap Listed(T, filter) # {}
        /\ \A a \in Ancestors(T, k) : T[a].parent # 0 => ~Exportable(T[a])}

GetFileReturned == fn = "getFigmaFile" /\ ret.done /\ ret.ok

\* C27: getFigmaFile scans the children of the top-level containers whose
\* identifier is in the filter, of all of them when the filter is empty: the
\* candidates returned are exactly the top-most matches below those
\* containers, never a top-level container, and none at all when the filter
\* names only identifiers of nested nodes.
C27_FilterSelectsTopLevelContainers ==
    GetFileReturned =>
        LET keys == {ret.val[i].key : i \in 1..Len(ret.val)}
        IN  /\ keys = ExpectedCandidates(arg.T, arg.nodeIds)
            /\ Len(ret.val) = Cardinality(keys)
            /\ \A k \in keys :
                /\ arg.T[k].parent # 0
                /\ Ancestors(arg.T, k) \cap Listed(arg.T, arg.nodeIds) # {}
            /\ (arg.nodeIds # <<>> /\ Listed(arg.T, arg.nodeIds) = {}) => ret.val = EmptyMap
            /\ io.getFile = 1

\* the filter names a top-level container, itself an exportable component, and
\* the match below it: only the match below it is returned
C27_Witness ==
    /\ GetFileReturned
    /\ Len(arg.T) = 3
    /\ arg.T[1].parent = 0 /\ Exportable(arg.T[1])
    /\ arg.T[2].parent = 0
    /\ arg.T[3].parent = 1 /\ Exportable(arg.T[3])
    /\ arg.nodeIds = <<IdString(1), IdString(3)>>
    /\ ret.val = <<[key |-> 3, val |-> NameOf(3)]>>

=============================================================================
